---- MODULE Spec2Model ----
(***************************************************************************)
(* lvm-cache-friend: a daemon that, for each mount request read from a     *)
(* unix socket connection, picks a logical volume by tags, takes a tagged  *)
(* snapshot of it and mounts the snapshot into the peer's mount namespace. *)
(*                                                                         *)
(* Text is modelled as a tuple of one-character strings, so that strip,    *)
(* startswith, split and clean_tag are computed character by character.    *)
(***************************************************************************)
EXTENDS Naturals, Sequences, FiniteSets, TLC

\* ------------------------------------------------------------------ bounds

\* Lines the peer may send on one connection before it has to stop.
MaxLines == 4

\* Snapshots the thin pool has room for; lvcreate fails once it is full.
MaxSnapshots == 2

\* ------------------------------------------------------------------- text

\* Python's None, distinct from every text (a text holds single characters).
None == <<"None">>

\* Whitespace as str.strip() and str.split() see it.
IsSpace(c) == c \in {" ", "\t", "\n"}

RECURSIVE LStrip(_)
LStrip(s) ==
    IF s # <<>> /\ IsSpace(Head(s)) THEN LStrip(Tail(s)) ELSE s

RECURSIVE RStrip(_)
RStrip(s) ==
    IF s # <<>> /\ IsSpace(s[Len(s)]) THEN RStrip(SubSeq(s, 1, Len(s) - 1)) ELSE s

\* str.strip()
Strip(s) == RStrip(LStrip(s))

\* str.startswith(prefix)
StartsWith(s, prefix) ==
    /\ Len(s) >= Len(prefix)
    /\ SubSeq(s, 1, Len(prefix)) = prefix

\* drop_prefix(text, prefix): the stripped rest, or None when the prefix is absent.
drop_prefix(text, prefix) ==
    IF StartsWith(text, prefix)
    THEN Strip(SubSeq(text, Len(prefix) + 1, Len(text)))
    ELSE None

\* The first whitespace-delimited word of s (s starts with a non-space).
RECURSIVE FirstWord(_)
FirstWord(s) ==
    IF s = <<>> \/ IsSpace(Head(s)) THEN <<>> ELSE <<Head(s)>> \o FirstWord(Tail(s))

\* str.split(): the words of s, in order.
RECURSIVE Split(_)
Split(s) ==
    LET t == LStrip(s)
        w == FirstWord(t)
    IN  IF t = <<>> THEN <<>>
        ELSE <<w>> \o Split(SubSeq(t, Len(w) + 1, Len(t)))

\* Characters TAG_PATTERN leaves alone.
TagChars ==
    { "a","b","c","d","e","f","g","h","i","j","k","l","m",
      "n","o","p","q","r","s","t","u","v","w","x","y","z",
      "A","B","C","D","E","F","G","H","I","J","K","L","M",
      "N","O","P","Q","R","S","T","U","V","W","X","Y","Z",
      "0","1","2","3","4","5","6","7","8","9",
      "/","=","!",":","#","&","+",".","-","_" }

\* clean_tag(text): every character outside TagChars becomes "-".
clean_tag(text) ==
    [i \in 1..Len(text) |-> IF text[i] \in TagChars THEN text[i] ELSE "-"]

\* ------------------------------------------------------------ configuration

\* --default
DefaultTag == <<"f","r","i","e","n","d",":","d","e","f","a","u","l","t">>

\* --tag-prefix
TagPrefix == <<"f","r","i","e","n","d",":","c","a","c","h","e",":">>

\* --tag-snapshot
TagSnapshot == <<"f","r","i","e","n","d",":","s","n","a","p","s","h","o","t">>

\* --name-prefix
NamePrefix == "friend-"

\* tag_snapshot = [clean_tag(args.tag_snapshot)] if args.tag_snapshot else []
tag_snapshot == IF TagSnapshot # <<>> THEN <<clean_tag(TagSnapshot)>> ELSE <<>>

\* ------------------------------------------------------------ protocol text

KwMount == <<"m","o","u","n","t">>
KwBye   == <<"b","y","e">>
KwAdd   == <<"<">>
KwFind  == <<">">>

\* The lines a peer sends in this model (without their newline).
ClientLines ==
    { <<"m","o","u","n","t"," ","/","x">>,      \* mount /x
      <<"m","o","u","n","t">>,                  \* mount
      <<>>,                                     \* blank line
      <<">","a"," ","b">>,                      \* >a b
      <<">"," ","a">>,                          \* > a
      <<">"," ","?">>,                          \* > ?
      <<">">>,                                  \* >
      <<"<"," ","?"," "," ","a">>,              \* < ?  a
      <<"b","y","e">>,                          \* bye
      <<"h","i">> }                             \* hi

\* What buf.readline() can return: a line with its newline, or "" at end of stream.
Readlines ==
    { [eof |-> FALSE, text |-> l \o <<"\n">>] : l \in ClientLines }
        \cup { [eof |-> TRUE, text |-> <<>>] }

\* ------------------------------------------------------------------ volumes

\* The smallest element of a non-empty set of numbers.
Min(S) == CHOOSE m \in S : \A n \in S : m <= n

\* The set of elements of a sequence.
Range(s) == { s[i] : i \in 1..Len(s) }

\* Lv(vg, name, tags)
Lv(vg, name, tags) == [vg |-> vg, name |-> name, tags |-> tags]

\* No volume (Python's None where an Lv is expected).
NoLv == Lv("", "", {})

\* A tag in the request namespace: args.tag_prefix + clean_tag(tag)
Prefixed(tag) == TagPrefix \o clean_tag(tag)

\* What the volume manager can hold when the daemon starts, most recent first.
InitCatalogs ==
    { << Lv("vg0", "v1", {TagPrefix \o <<"a">>}),
         Lv("vg0", "v2", {TagPrefix \o <<"a">>, TagPrefix \o <<"b">>}),
         Lv("vg0", "base", {DefaultTag}) >>,
      << Lv("vg0", "v1", {TagPrefix \o <<"a">>}) >> }

\* iter_lvs(): the catalog as Lv records; an untagged volume reads as tags [""].
iter_lvs(cat) ==
    [i \in 1..Len(cat) |->
        Lv(cat[i].vg, cat[i].name,
           IF cat[i].tags = {} THEN {<<>>} ELSE cat[i].tags)]

\* lv_has_tag(eq(tag))(lv)
lv_has_tag(lv, tag) == \E t \in lv.tags : t = tag

\* next(filter(lv_has_tag(eq(tag)), lvs)), NoLv when the iterator runs out.
RECURSIVE FirstTagged(_, _)
FirstTagged(lvs, tag) ==
    IF lvs = <<>> THEN NoLv
    ELSE IF lv_has_tag(Head(lvs), tag) THEN Head(lvs)
    ELSE FirstTagged(Tail(lvs), tag)

\* required = [args.tag_prefix + clean_tag(tag) for tag in tags]
Required(tags) == { Prefixed(tags[i]) : i \in 1..Len(tags) }

\* hasall = lambda lv: all(tag in lv.tags for tag in required)
hasall(lv, required) == \A tag \in required : tag \in lv.tags

\* next(filter(hasall, lvs), None)
RECURSIVE NextHasAll(_, _)
NextHasAll(lvs, required) ==
    IF lvs = <<>> THEN NoLv
    ELSE IF hasall(Head(lvs), required) THEN Head(lvs)
    ELSE NextHasAll(Tail(lvs), required)

\* Resolve as a search for the most recent volume that satisfies any group.
Resolve_mostrecent(findtags, lvs, dflt) ==
    LET any == { i \in 1..Len(lvs) :
                   \E g \in 1..Len(findtags) : hasall(lvs[i], Required(findtags[g])) }
    IN  IF any = {} THEN dflt ELSE lvs[Min(any)]

\* Resolve falling back to the most recent volume instead of the default lv.
RECURSIVE Resolve_fallbackrecent(_, _, _)
Resolve_fallbackrecent(findtags, lvs, dflt) ==
    IF findtags = <<>> THEN (IF lvs = <<>> THEN dflt ELSE Head(lvs))
    ELSE LET found == NextHasAll(lvs, Required(Head(findtags)))
         IN  IF found # NoLv THEN found
             ELSE Resolve_fallbackrecent(Tail(findtags), lvs, dflt)

\* for tags in mount.findtags: ... break / else: lv = default
RECURSIVE Resolve(_, _, _)
Resolve(findtags, lvs, dflt) ==
    IF findtags = <<>> THEN dflt
    ELSE LET found == NextHasAll(lvs, Required(Head(findtags)))
         IN  IF found # NoLv THEN found
             ELSE Resolve(Tail(findtags), lvs, dflt)

\* Names of the volumes that exist before the daemon starts.
InitNames == UNION { { c[i].name : i \in 1..Len(c) } : c \in InitCatalogs }

\* Snapshots taken since the daemon started that the catalog holds.
IsSnapshot(v) == v.name \notin InitNames
NumSnapshots(cat) == Cardinality({ i \in 1..Len(cat) : IsSnapshot(cat[i]) })

\* next_snapshot_name(): a timestamp-ordered fresh name; the n-th snapshot gets n.
next_snapshot_name(cat) == NamePrefix \o ToString(NumSnapshots(cat) + 1)

\* addtags = [args.tag_prefix + clean_tag(tag) for tag in mount.addtags] + tag_snapshot
AddTags(addtags) ==
    [i \in 1..Len(addtags) |-> Prefixed(addtags[i])] \o tag_snapshot

\* ----------------------------------------------------------------- commands

CmdLvcreate     == "lvcreate --snapshot"
CmdBind         == "mount --bind stage stage"
CmdMountDev     == "mount /dev/vg/lv inner"
CmdMakePrivate  == "mount --namespace pid --make-private stage"
CmdMove         == "mount --namespace pid --move inner dst"
CmdUmountNsInner == "umount --namespace pid inner"
CmdUmountNsStage == "umount --namespace pid stage"
CmdUmountInner  == "umount inner"
CmdUmountStage  == "umount stage"

\* One external command as run() saw it.
Ran(cmd, arg, ok) == [cmd |-> cmd, arg |-> arg, ok |-> ok]

\* No exception pending.
NoErr == "none"

\* Load(dst, addtags, findtags)
Load(dst, addtags, findtags) ==
    [dst |-> dst, addtags |-> addtags, findtags |-> findtags]

NoLoad == Load(None, <<>>, <<>>)

\* A line written to the peer.
Wrote(kind, text) == [kind |-> kind, text |-> text]

\* -------------------------------------------------------------------- state

VARIABLES
    pc,             \* where the daemon is
    catalog,        \* the volume manager's volumes, most recent first
    default,        \* the default lv found at startup
    eof,            \* the peer has closed its side of the connection
    nread,          \* lines read from the current connection
    nreq,           \* Loads yielded by read_peer on the current connection
    load,           \* the Load being parsed or handled
    lv,             \* the lv the snapshot is taken from
    snapshot_name,  \* the name of the snapshot being created
    err,            \* the command whose CalledProcessError is propagating
    ops,            \* commands run for the request being handled, in order
    out,            \* lines written to the peer of the latest connection
    made,           \* snapshots created, most recent first, with the addtags asked for
    lastline,       \* the stripped line read last since read_peer was started or resumed, None if none
    mountfailed     \* the latest request made a snapshot it failed to mount, until lvcreate runs

vars == << pc, catalog, default, eof, nread, nreq, load, lv, snapshot_name,
           err, ops, out, made,
           lastline, mountfailed >>

Init ==
    /\ pc = "startup"
    /\ catalog \in InitCatalogs
    /\ default = NoLv
    /\ eof = FALSE
    /\ nread = 0
    /\ nreq = 0
    /\ load = NoLoad
    /\ lv = NoLv
    /\ snapshot_name = ""
    /\ err = NoErr
    /\ ops = <<>>
    /\ out = <<>>
    /\ made = <<>>
    /\ lastline = None
    /\ mountfailed = FALSE

\* ------------------------------------------------------------------ startup

\* main(): the default lv is found, the daemon listens.
StartupOk ==
    /\ pc = "startup"
    /\ FirstTagged(iter_lvs(catalog), DefaultTag) # NoLv
    /\ default' = FirstTagged(iter_lvs(catalog), DefaultTag)
    /\ pc' = "accept"
    /\ UNCHANGED << catalog, eof, nread, nreq, load, lv, snapshot_name, err, ops, out, made, lastline, mountfailed >>

\* main(): lvs failed (LvsError) or no lv carries the default tag: SystemExit(1).
StartupFail ==
    /\ pc = "startup"
    /\ \E lvsok \in BOOLEAN :
          ~lvsok \/ FirstTagged(iter_lvs(catalog), DefaultTag) = NoLv
    /\ pc' = "exit(1)"
    /\ UNCHANGED << catalog, default, eof, nread, nreq, load, lv, snapshot_name,
                    err, ops, out, made,
           lastline, mountfailed >>

\* -------------------------------------------------------------- connections

\* peer_requests(): sock.accept() returns a peer.
Accept ==
    /\ pc = "accept"
    /\ pc' = "top"
    /\ eof' = FALSE
    /\ nread' = 0
    /\ nreq' = 0
    /\ out' = <<>>
    /\ lastline' = None
    /\ UNCHANGED << catalog, default, load, lv, snapshot_name, err, ops, made, mountfailed >>

\* peer_requests(): KeyboardInterrupt in sock.accept(): SystemExit(0).
Interrupt ==
    /\ pc = "accept"
    /\ pc' = "exit(0)"
    /\ UNCHANGED << catalog, default, eof, nread, nreq, load, lv, snapshot_name,
                    err, ops, out, made,
           lastline, mountfailed >>

\* What the next buf.readline() can return on the current connection.
Reads ==
    IF eof \/ nread >= MaxLines
    THEN { r \in Readlines : r.eof }
    ELSE Readlines

\* The bookkeeping of one readline.
DidRead(r) ==
    /\ eof' = (eof \/ r.eof)
    /\ nread' = IF r.eof THEN nread ELSE nread + 1

\* The connection is over: the generators finish and the peer is closed.
Disconnect ==
    /\ pc' = "accept"
    /\ load' = NoLoad

\* peer_requests(): readline raised ConnectionError or TimeoutError.
PeerTimeout ==
    /\ pc \in {"top", "record"}
    /\ ~eof
    /\ Disconnect
    /\ lastline' = None
    /\ UNCHANGED << catalog, default, eof, nread, nreq, lv, snapshot_name, err,
                    ops, out, made, mountfailed >>

\* ReadEnd taking a blank top-level line for one to skip: only the end of the
\* stream ends the loop.
ReadEnd_skipsblank ==
    /\ pc = "top"
    /\ \E r \in Reads :
          /\ Strip(r.text) = <<>>
          /\ DidRead(r)
          /\ lastline' = Strip(r.text)
          /\ IF r.eof THEN Disconnect ELSE UNCHANGED << pc, load >>
    /\ UNCHANGED << catalog, default, nreq, lv, snapshot_name, err, ops, out, made, mountfailed >>

\* read_peer(): the top-level readline is empty after strip: the loop ends.
ReadEnd ==
    /\ pc = "top"
    /\ \E r \in Reads :
          /\ Strip(r.text) = <<>>
          /\ DidRead(r)
          /\ lastline' = Strip(r.text)
    /\ Disconnect
    /\ UNCHANGED << catalog, default, nreq, lv, snapshot_name, err, ops, out, made, mountfailed >>

\* read_peer(): a line starting with "mount" opens a record.
ReadMount ==
    /\ pc = "top"
    /\ \E r \in Reads :
          LET line == Strip(r.text)
              dst == drop_prefix(line, KwMount)
          IN  /\ line # <<>>
              /\ dst # None
              /\ DidRead(r)
              /\ lastline' = line
              /\ load' = Load(dst, <<>>, <<>>)
    /\ pc' = "record"
    /\ UNCHANGED << catalog, default, nreq, lv, snapshot_name, err, ops, out, made, mountfailed >>

\* read_peer(): a line starting with "bye": farewell, the loop breaks.
ReadBye ==
    /\ pc = "top"
    /\ \E r \in Reads :
          LET line == Strip(r.text)
              rest == drop_prefix(line, KwBye)
          IN  /\ line # <<>>
              /\ drop_prefix(line, KwMount) = None
              /\ rest # None
              /\ DidRead(r)
              /\ lastline' = line
              /\ out' = Append(out, Wrote("glhf", rest))
    /\ Disconnect
    /\ UNCHANGED << catalog, default, nreq, lv, snapshot_name, err, ops, made, mountfailed >>

\* ReadUnexpected with `continue` in place of `break`: the loop reads on.
ReadUnexpected_continue ==
    /\ pc = "top"
    /\ \E r \in Reads :
          LET line == Strip(r.text)
          IN  /\ line # <<>>
              /\ drop_prefix(line, KwMount) = None
              /\ drop_prefix(line, KwBye) = None
              /\ DidRead(r)
              /\ lastline' = line
              /\ out' = Append(out, Wrote("unexpected", line))
    /\ UNCHANGED << pc, load >>
    /\ UNCHANGED << catalog, default, nreq, lv, snapshot_name, err, ops, made, mountfailed >>

\* read_peer(): any other top-level line is echoed and the loop breaks.
ReadUnexpected ==
    /\ pc = "top"
    /\ \E r \in Reads :
          LET line == Strip(r.text)
          IN  /\ line # <<>>
              /\ drop_prefix(line, KwMount) = None
              /\ drop_prefix(line, KwBye) = None
              /\ DidRead(r)
              /\ lastline' = line
              /\ out' = Append(out, Wrote("unexpected", line))
    /\ Disconnect
    /\ UNCHANGED << catalog, default, nreq, lv, snapshot_name, err, ops, made, mountfailed >>

\* RecordAdd assigning the tags of the line where the code extends the list.
RecordAdd_assigns ==
    /\ pc = "record"
    /\ \E r \in Reads :
          LET line == Strip(r.text)
              addtag == drop_prefix(line, KwAdd)
          IN  /\ line # <<>>
              /\ addtag # None /\ addtag # <<>>
              /\ DidRead(r)
              /\ lastline' = line
              /\ load' = [load EXCEPT !.addtags = Split(addtag)]
    /\ UNCHANGED << pc, catalog, default, nreq, lv, snapshot_name, err, ops, out, made, mountfailed >>

\* read_peer(): a "<" line with tags extends addtags.
RecordAdd ==
    /\ pc = "record"
    /\ \E r \in Reads :
          LET line == Strip(r.text)
              addtag == drop_prefix(line, KwAdd)
          IN  /\ line # <<>>
              /\ addtag # None /\ addtag # <<>>
              /\ DidRead(r)
              /\ lastline' = line
              /\ load' = [load EXCEPT !.addtags = @ \o Split(addtag)]
    /\ UNCHANGED << pc, catalog, default, nreq, lv, snapshot_name, err, ops, out, made, mountfailed >>

\* RecordFind testing the rest of a ">" line with `is not None`: a bare ">"
\* appends an empty group.
RecordFind_isnotnone ==
    /\ pc = "record"
    /\ \E r \in Reads :
          LET line == Strip(r.text)
              addtag == drop_prefix(line, KwAdd)
              findtag == drop_prefix(line, KwFind)
          IN  /\ line # <<>>
              /\ (addtag = None \/ addtag = <<>>)
              /\ findtag # None
              /\ DidRead(r)
              /\ lastline' = line
              /\ load' = [load EXCEPT !.findtags = Append(@, Split(findtag))]
    /\ UNCHANGED << pc, catalog, default, nreq, lv, snapshot_name, err, ops, out, made, mountfailed >>

\* read_peer(): a ">" line with tags appends one group to findtags.
RecordFind ==
    /\ pc = "record"
    /\ \E r \in Reads :
          LET line == Strip(r.text)
              addtag == drop_prefix(line, KwAdd)
              findtag == drop_prefix(line, KwFind)
          IN  /\ line # <<>>
              /\ (addtag = None \/ addtag = <<>>)
              /\ findtag # None /\ findtag # <<>>
              /\ DidRead(r)
              /\ lastline' = line
              /\ load' = [load EXCEPT !.findtags = Append(@, Split(findtag))]
    /\ UNCHANGED << pc, catalog, default, nreq, lv, snapshot_name, err, ops, out, made, mountfailed >>

\* RecordIgnore ending the session as an unexpected top-level line does.
RecordIgnore_aborts ==
    /\ pc = "record"
    /\ \E r \in Reads :
          LET line == Strip(r.text)
              addtag == drop_prefix(line, KwAdd)
              findtag == drop_prefix(line, KwFind)
          IN  /\ line # <<>>
              /\ (addtag = None \/ addtag = <<>>)
              /\ (findtag = None \/ findtag = <<>>)
              /\ DidRead(r)
              /\ lastline' = line
              /\ out' = Append(out, Wrote("ignoring unexpected", line))
    /\ Disconnect
    /\ UNCHANGED << catalog, default, nreq, lv, snapshot_name, err, ops, made, mountfailed >>

\* read_peer(): any other line of a record is echoed and skipped.
RecordIgnore ==
    /\ pc = "record"
    /\ \E r \in Reads :
          LET line == Strip(r.text)
              addtag == drop_prefix(line, KwAdd)
              findtag == drop_prefix(line, KwFind)
          IN  /\ line # <<>>
              /\ (addtag = None \/ addtag = <<>>)
              /\ (findtag = None \/ findtag = <<>>)
              /\ DidRead(r)
              /\ lastline' = line
              /\ out' = Append(out, Wrote("ignoring unexpected", line))
    /\ UNCHANGED << pc, catalog, default, nreq, load, lv, snapshot_name, err, ops, made, mountfailed >>

\* RecordEnd with the Loads collected before any is handled: reading goes on.
RecordEnd_eager ==
    /\ pc = "record"
    /\ \E r \in Reads :
          /\ Strip(r.text) = <<>>
          /\ DidRead(r)
          /\ lastline' = Strip(r.text)
    /\ nreq' = nreq + 1
    /\ pc' = "top"
    /\ UNCHANGED << catalog, default, load, lv, snapshot_name, err, ops, out, made, mountfailed >>

\* read_until_empty_line() ends: read_peer yields the Load to main().
RecordEnd ==
    /\ pc = "record"
    /\ \E r \in Reads :
          /\ Strip(r.text) = <<>>
          /\ DidRead(r)
          /\ lastline' = Strip(r.text)
    /\ nreq' = nreq + 1
    /\ pc' = "request"
    /\ UNCHANGED << catalog, default, load, lv, snapshot_name, err, ops, out, made, mountfailed >>

\* ----------------------------------------------------------------- requests

\* RequestLvsFail with `continue` in place of `break`: the next Load is asked for.
RequestLvsFail_continue ==
    /\ pc = "request"
    /\ pc' = "top"
    /\ load' = NoLoad
    /\ lastline' = None
    /\ UNCHANGED << catalog, default, eof, nread, nreq, lv, snapshot_name, err,
                    ops, out, made, mountfailed >>

\* main(): list(iter_lvs()) raised LvsError: break, the peer is disconnected.
RequestLvsFail ==
    /\ pc = "request"
    /\ Disconnect
    /\ lastline' = None
    /\ UNCHANGED << catalog, default, eof, nread, nreq, lv, snapshot_name, err,
                    ops, out, made, mountfailed >>

\* RequestResolve matching against the catalog as it was when the daemon started.
RequestResolve_cached ==
    /\ pc = "request"
    /\ lv' = Resolve(load.findtags,
                     iter_lvs(SubSeq(catalog, NumSnapshots(catalog) + 1, Len(catalog))),
                     default)
    /\ snapshot_name' = next_snapshot_name(catalog)
    /\ pc' = "lvcreate"
    /\ UNCHANGED << catalog, default, eof, nread, nreq, load, err, ops, out, made, lastline, mountfailed >>

\* main(): the catalog is read, the source lv resolved, the snapshot named.
RequestResolve ==
    /\ pc = "request"
    /\ lv' = Resolve(load.findtags, iter_lvs(catalog), default)
    /\ snapshot_name' = next_snapshot_name(catalog)
    /\ pc' = "lvcreate"
    /\ UNCHANGED << catalog, default, eof, nread, nreq, load, err, ops, out, made, lastline, mountfailed >>

\* lvcreate_snapshot(vg, from_lv, name, tags): the volume lvcreate makes.
lvcreate_snapshot(vg, from_lv, name, tags) == Lv(vg, name, Range(tags))

\* run(*argv) of a mount or umount command with the given outcome.
Run(cmd, ok) == ops' = Append(ops, Ran(cmd, <<>>, ok))

\* main(): lvcreate_snapshot(lv.vg, lv.name, snapshot_name, addtags)
LvCreate ==
    /\ pc = "lvcreate"
    /\ \E ok \in BOOLEAN :
          /\ ok => NumSnapshots(catalog) < MaxSnapshots
          /\ ops' = Append(ops, Ran(CmdLvcreate, <<lv.vg, lv.name, snapshot_name>>, ok))
          /\ IF ok
             THEN /\ catalog' = << lvcreate_snapshot(lv.vg, lv.name, snapshot_name,
                                                     AddTags(load.addtags)) >> \o catalog
                  /\ made' = << [name |-> snapshot_name,
                                  addtags |-> Range(load.addtags)] >> \o made
                  /\ pc' = "mount_bind"
                  /\ UNCHANGED err
             ELSE /\ err' = CmdLvcreate
                  /\ pc' = "respond"
                  /\ UNCHANGED << catalog, made >>
    /\ mountfailed' = FALSE
    /\ UNCHANGED << default, eof, nread, nreq, load, lv, snapshot_name, out, lastline >>

\* mount_into_namespace(): run("mount", "--bind", stage, stage)
MountBind ==
    /\ pc = "mount_bind"
    /\ \E ok \in BOOLEAN :
          /\ Run(CmdBind, ok)
          /\ IF ok
             THEN pc' = "mount_dev" /\ UNCHANGED err
             ELSE pc' = "respond" /\ err' = CmdBind
    /\ UNCHANGED << catalog, default, eof, nread, nreq, load, lv, snapshot_name, out, made, lastline, mountfailed >>

\* MountDev with the failure leaving mount_into_namespace without unwinding.
MountDev_nounwind ==
    /\ pc = "mount_dev"
    /\ \E ok \in BOOLEAN :
          /\ Run(CmdMountDev, ok)
          /\ IF ok
             THEN pc' = "make_private" /\ UNCHANGED err
             ELSE pc' = "respond" /\ err' = CmdMountDev
    /\ UNCHANGED << catalog, default, eof, nread, nreq, load, lv, snapshot_name, out, made, lastline, mountfailed >>

\* mount_into_namespace(): run("mount", *mount_options, f"/dev/{vg}/{lv}", inner)
MountDev ==
    /\ pc = "mount_dev"
    /\ \E ok \in BOOLEAN :
          /\ Run(CmdMountDev, ok)
          /\ IF ok
             THEN pc' = "make_private" /\ UNCHANGED err
             ELSE pc' = "umount_stage" /\ err' = CmdMountDev
    /\ UNCHANGED << catalog, default, eof, nread, nreq, load, lv, snapshot_name, out, made, lastline, mountfailed >>

\* MakePrivate run inside the try whose finally unmounts the staging directory
\* in the peer's namespace.
MakePrivate_insidetry ==
    /\ pc = "make_private"
    /\ \E ok \in BOOLEAN :
          /\ Run(CmdMakePrivate, ok)
          /\ IF ok
             THEN pc' = "move" /\ UNCHANGED err
             ELSE pc' = "umount_ns_stage" /\ err' = CmdMakePrivate
    /\ UNCHANGED << catalog, default, eof, nread, nreq, load, lv, snapshot_name, out, made, lastline, mountfailed >>

\* mount_into_namespace(): run("mount", "--namespace", pid, "--make-private", stage)
MakePrivate ==
    /\ pc = "make_private"
    /\ \E ok \in BOOLEAN :
          /\ Run(CmdMakePrivate, ok)
          /\ IF ok
             THEN pc' = "move" /\ UNCHANGED err
             ELSE pc' = "umount_inner" /\ err' = CmdMakePrivate
    /\ UNCHANGED << catalog, default, eof, nread, nreq, load, lv, snapshot_name, out, made, lastline, mountfailed >>

\* Move with the except clause dropped: a failed move goes straight to the finally.
Move_noexcept ==
    /\ pc = "move"
    /\ \E ok \in BOOLEAN :
          /\ Run(CmdMove, ok)
          /\ IF ok
             THEN pc' = "umount_ns_stage" /\ UNCHANGED err
             ELSE pc' = "umount_ns_stage" /\ err' = CmdMove
    /\ UNCHANGED << catalog, default, eof, nread, nreq, load, lv, snapshot_name, out, made, lastline, mountfailed >>

\* Move with the umount of inner in the namespace run on success as well.
Move_alwaysumount ==
    /\ pc = "move"
    /\ \E ok \in BOOLEAN :
          /\ Run(CmdMove, ok)
          /\ IF ok
             THEN pc' = "umount_ns_inner" /\ UNCHANGED err
             ELSE pc' = "umount_ns_inner" /\ err' = CmdMove
    /\ UNCHANGED << catalog, default, eof, nread, nreq, load, lv, snapshot_name, out, made, lastline, mountfailed >>

\* mount_into_namespace(): run("mount", "--namespace", pid, "--move", inner, dst)
Move ==
    /\ pc = "move"
    /\ \E ok \in BOOLEAN :
          /\ Run(CmdMove, ok)
          /\ IF ok
             THEN pc' = "umount_ns_stage" /\ UNCHANGED err
             ELSE pc' = "umount_ns_inner" /\ err' = CmdMove
    /\ UNCHANGED << catalog, default, eof, nread, nreq, load, lv, snapshot_name, out, made, lastline, mountfailed >>

\* except CalledProcessError: run_noraise("umount", "--namespace", pid, inner); raise
UmountNsInner ==
    /\ pc = "umount_ns_inner"
    /\ \E ok \in BOOLEAN : Run(CmdUmountNsInner, ok)
    /\ pc' = "umount_ns_stage"
    /\ UNCHANGED << catalog, default, eof, nread, nreq, load, lv, snapshot_name,
                    err, out, made, lastline, mountfailed >>

\* finally: run_noraise("umount", "--namespace", pid, stage)
UmountNsStage ==
    /\ pc = "umount_ns_stage"
    /\ \E ok \in BOOLEAN : Run(CmdUmountNsStage, ok)
    /\ pc' = "umount_inner"
    /\ UNCHANGED << catalog, default, eof, nread, nreq, load, lv, snapshot_name,
                    err, out, made, lastline, mountfailed >>

\* UmountInner with run in place of run_noraise: its failure is raised and
\* replaces the one that was propagating.
UmountInner_raises ==
    /\ pc = "umount_inner"
    /\ \E ok \in BOOLEAN :
          /\ Run(CmdUmountInner, ok)
          /\ err' = IF ok THEN err ELSE CmdUmountInner
    /\ pc' = "umount_stage"
    /\ UNCHANGED << catalog, default, eof, nread, nreq, load, lv, snapshot_name,
                    out, made, lastline, mountfailed >>

\* finally: run_noraise("umount", inner)
UmountInner ==
    /\ pc = "umount_inner"
    /\ \E ok \in BOOLEAN : Run(CmdUmountInner, ok)
    /\ pc' = "umount_stage"
    /\ UNCHANGED << catalog, default, eof, nread, nreq, load, lv, snapshot_name,
                    err, out, made, lastline, mountfailed >>

\* finally: run_noraise("umount", stage)
UmountStage ==
    /\ pc = "umount_stage"
    /\ \E ok \in BOOLEAN : Run(CmdUmountStage, ok)
    /\ pc' = "respond"
    /\ UNCHANGED << catalog, default, eof, nread, nreq, load, lv, snapshot_name,
                    err, out, made, lastline, mountfailed >>

\* Respond naming the snapshot that was created instead of its source.
Respond_snapshot ==
    /\ pc = "respond"
    /\ out' = Append(out, IF err # NoErr
                          THEN Wrote("stderr", <<err>>)
                          ELSE Wrote("lv", <<lv.vg, snapshot_name>>))
    /\ pc' = "top"
    /\ err' = NoErr
    /\ ops' = <<>>
    /\ lv' = NoLv
    /\ snapshot_name' = ""
    /\ load' = NoLoad
    /\ lastline' = None
    /\ mountfailed' = (err \notin {NoErr, CmdLvcreate})
    /\ UNCHANGED << catalog, default, eof, nread, nreq, made >>

\* Respond dropping the peer after it has reported an error.
Respond_breaks ==
    /\ pc = "respond"
    /\ out' = Append(out, IF err # NoErr
                          THEN Wrote("stderr", <<err>>)
                          ELSE Wrote("lv", <<lv.vg, lv.name>>))
    /\ pc' = IF err # NoErr THEN "accept" ELSE "top"
    /\ err' = NoErr
    /\ ops' = <<>>
    /\ lv' = NoLv
    /\ snapshot_name' = ""
    /\ load' = NoLoad
    /\ lastline' = None
    /\ mountfailed' = (err \notin {NoErr, CmdLvcreate})
    /\ UNCHANGED << catalog, default, eof, nread, nreq, made >>

\* Respond removing the snapshot that could not be mounted.
Respond_lvremove ==
    /\ pc = "respond"
    /\ out' = Append(out, IF err # NoErr
                          THEN Wrote("stderr", <<err>>)
                          ELSE Wrote("lv", <<lv.vg, lv.name>>))
    /\ pc' = "top"
    /\ err' = NoErr
    /\ ops' = <<>>
    /\ lv' = NoLv
    /\ snapshot_name' = ""
    /\ load' = NoLoad
    /\ lastline' = None
    /\ mountfailed' = (err \notin {NoErr, CmdLvcreate})
    /\ IF err \notin {NoErr, CmdLvcreate}
       THEN catalog' = Tail(catalog) /\ made' = Tail(made)
       ELSE UNCHANGED << catalog, made >>
    /\ UNCHANGED << default, eof, nread, nreq >>

\* main(): print(err.stderr, file=peer) or print(lv.vg, lv.name, file=peer);
\* the loop then asks read_peer for the next Load.
Respond ==
    /\ pc = "respond"
    /\ out' = Append(out, IF err # NoErr
                          THEN Wrote("stderr", <<err>>)
                          ELSE Wrote("lv", <<lv.vg, lv.name>>))
    /\ pc' = "top"
    /\ err' = NoErr
    /\ ops' = <<>>
    /\ lv' = NoLv
    /\ snapshot_name' = ""
    /\ load' = NoLoad
    /\ lastline' = None
    /\ mountfailed' = (err \notin {NoErr, CmdLvcreate})
    /\ UNCHANGED << catalog, default, eof, nread, nreq, made >>

\* ------------------------------------------------------------ specification

Next ==
    \/ StartupOk
    \/ StartupFail
    \/ Accept
    \/ Interrupt
    \/ PeerTimeout
    \/ ReadEnd
    \/ ReadMount
    \/ ReadBye
    \/ ReadUnexpected
    \/ RecordAdd
    \/ RecordFind
    \/ RecordIgnore
    \/ RecordEnd
    \/ RequestLvsFail
    \/ RequestResolve
    \/ LvCreate
    \/ MountBind
    \/ MountDev
    \/ MakePrivate
    \/ Move
    \/ UmountNsInner
    \/ UmountNsStage
    \/ UmountInner
    \/ UmountStage
    \/ Respond

Spec == Init /\ [][Next]_vars

\* ------------------------------------------------------------- vocabulary

\* The source lv has been resolved from the catalog as it stands, nothing run yet.
Resolved == pc = "lvcreate"

\* The catalog as the handler of the current request read it.
LvsRead == iter_lvs(catalog)

\* Positions of the volumes that hold every tag of `required`.
Hits(lvs, required) == { i \in 1..Len(lvs) : required \subseteq lvs[i].tags }

\* The request's groups, by position, that some volume satisfies when a group
\* asks for tagPrefix + clean_tag(t) of each of its tags t.
GroupsHit ==
    { g \in 1..Len(load.findtags) :
        Hits(LvsRead, { TagPrefix \o clean_tag(t) : t \in Range(load.findtags[g]) }) # {} }

\* The same when a group asks for tagPrefix + t, the tags taken as sent.
RawGroupsHit ==
    { g \in 1..Len(load.findtags) :
        Hits(LvsRead, { TagPrefix \o t : t \in Range(load.findtags[g]) }) # {} }

\* Positions in ops of the runs of `cmd`.
RunsOf(cmd) == { i \in 1..Len(ops) : ops[i].cmd = cmd }

Succeeded(cmd) == \E i \in RunsOf(cmd) : ops[i].ok
Failed(cmd) == \E i \in RunsOf(cmd) : ~ops[i].ok

\* The commands run after the (only) run of `cmd`, in order.
CmdsAfter(cmd) ==
    LET at == Min(RunsOf(cmd))
    IN  [i \in 1..(Len(ops) - at) |-> ops[at + i].cmd]

\* `sub` occurs in `seq` as a subsequence, in order.
RECURSIVE InOrder(_, _)
InOrder(sub, seq) ==
    IF sub = <<>> THEN TRUE
    ELSE IF seq = <<>> THEN FALSE
    ELSE IF Head(sub) = Head(seq) THEN InOrder(Tail(sub), Tail(seq))
    ELSE InOrder(sub, Tail(seq))

\* The mount sequence and its unwinding are over; the outcome is about to be reported.
Reporting == pc = "respond"

\* ------------------------------------------------------------------- claims

\* C1 as stated: the resolved volume is the first catalog entry whose tags
\* contain every tagPrefix + t, for t in the earliest group that any volume
\* satisfies in that way.
C1_FirstGroupFirstHitRaw ==
    (Resolved /\ RawGroupsHit # {}) =>
        LET g == Min(RawGroupsHit)
            required == { TagPrefix \o t : t \in Range(load.findtags[g]) }
        IN  lv = LvsRead[Min(Hits(LvsRead, required))]

\* C1 as amended: the resolved volume is the first catalog entry whose tags
\* contain every tagPrefix + clean_tag(t), for t in the earliest group that any
\* volume satisfies; later groups play no part, whatever more recent volume
\* they would match.
C1_FirstGroupFirstHit ==
    (Resolved /\ GroupsHit # {}) =>
        LET g == Min(GroupsHit)
            required == { TagPrefix \o clean_tag(t) : t \in Range(load.findtags[g]) }
        IN  lv = LvsRead[Min(Hits(LvsRead, required))]

\* C1 witness: the first group picks a volume although a more recent volume
\* satisfies a later group.
C1_Witness ==
    /\ Resolved
    /\ GroupsHit # {}
    /\ \E g \in GroupsHit, i \in 1..Len(LvsRead) :
          /\ g > Min(GroupsHit)
          /\ LvsRead[i] # lv
          /\ i = Min(Hits(LvsRead,
                   { TagPrefix \o clean_tag(t) : t \in Range(load.findtags[g]) }))
          /\ \A j \in 1..i : LvsRead[j] # lv

\* C2: when no group of the request is satisfied by any catalog volume (a
\* request without groups included), the source is the default lv, the volume
\* carrying the default tag that startup found.
C2_NoMatchGivesDefault ==
    (Resolved /\ GroupsHit = {}) =>
        /\ lv = default
        /\ DefaultTag \in lv.tags
        /\ \E c \in InitCatalogs : lv = FirstTagged(iter_lvs(c), DefaultTag)

\* C2 witness: a request with a group that no volume satisfies has been resolved.
C2_Witness ==
    /\ Resolved
    /\ load.findtags # <<>>
    /\ GroupsHit = {}
    /\ lv = default

\* C3: when the move fails, the outcome is reported only after the umount of
\* inner in the target namespace, the umount of stage in the target namespace
\* and the umount of stage in the daemon's namespace have been run in that
\* order, every mount made has a later umount of its mount point, and what is
\* written to the peer is the stderr of the move.
C3_MoveFailureUnwinds ==
    [][ (Reporting /\ Failed(CmdMove)) =>
          /\ InOrder(<<CmdUmountNsInner, CmdUmountNsStage, CmdUmountStage>>,
                     CmdsAfter(CmdMove))
          /\ \A i \in RunsOf(CmdBind) :
                ops[i].ok => \E j \in RunsOf(CmdUmountStage) : j > i
          /\ \A i \in RunsOf(CmdMountDev) :
                ops[i].ok => \E j \in RunsOf(CmdUmountInner) \cup RunsOf(CmdUmountNsInner) : j > i
          /\ \A i \in RunsOf(CmdMakePrivate) :
                ops[i].ok => \E j \in RunsOf(CmdUmountNsStage) : j > i
          /\ out' = Append(out, Wrote("stderr", <<CmdMove>>)) ]_vars

\* C3 witness: the move failed and its unwinding is done, with an umount that
\* failed on the way.
C3_Witness ==
    /\ Reporting
    /\ Failed(CmdMove)
    /\ Failed(CmdUmountNsInner)

\* C4 as stated: after a successful move every umount run is one of the staging
\* directory.
C4_OnlyStageUmountsAfterMove ==
    (Reporting /\ Succeeded(CmdMove)) =>
        \A i \in 1..Len(CmdsAfter(CmdMove)) :
            CmdsAfter(CmdMove)[i] \in {CmdUmountNsStage, CmdUmountStage}

\* C4 as amended: after a successful move inner is never unmounted in the target
\* namespace; the commands run after it are the umount of stage in the target
\* namespace, the umount of inner in the daemon's namespace and the umount of
\* stage in the daemon's namespace, in that order.
C4_NoTargetInnerUmountAfterMove ==
    (Reporting /\ Succeeded(CmdMove)) =>
        /\ RunsOf(CmdUmountNsInner) = {}
        /\ CmdsAfter(CmdMove) = <<CmdUmountNsStage, CmdUmountInner, CmdUmountStage>>

\* C4 witness: the move succeeded and the sequence is over.
C4_Witness ==
    /\ Reporting
    /\ Succeeded(CmdMove)
    /\ err = NoErr

\* C5: whenever the bind mount of stage succeeded, whatever happened next, the
\* umount of stage in the daemon's namespace is run, once, and it is the last
\* command of the sequence.
C5_StageAlwaysReleased ==
    (Reporting /\ Succeeded(CmdBind)) =>
        /\ ops[Len(ops)].cmd = CmdUmountStage
        /\ Cardinality(RunsOf(CmdUmountStage)) = 1

\* C5 witness: the sequence failed early, at the mount of the device, and is over.
C5_Witness ==
    /\ Reporting
    /\ Succeeded(CmdBind)
    /\ Failed(CmdMountDev)

\* The positions of the daemon between the resolution of a request and its response.
Orchestrating ==
    { "lvcreate", "mount_bind", "mount_dev", "make_private", "move",
      "umount_ns_inner", "umount_ns_stage", "umount_inner", "umount_stage",
      "respond" }

\* The commands run with run(): their failure raises CalledProcessError.
Raising == { CmdLvcreate, CmdBind, CmdMountDev, CmdMakePrivate, CmdMove }

\* Responses to requests among the lines written to the peer.
NumResponses(o) ==
    Cardinality({ i \in 1..Len(o) : o[i].kind \in {"lv", "stderr"} })

\* What the commands run for the request call for as its response: the stderr
\* of the first command whose failure raised, else the volume lvcreate was
\* given as the snapshot's origin.
ExpectedResponse ==
    LET failed == { i \in 1..Len(ops) : ops[i].cmd \in Raising /\ ~ops[i].ok }
    IN  IF failed # {}
        THEN Wrote("stderr", <<ops[Min(failed)].cmd>>)
        ELSE Wrote("lv", <<ops[1].arg[1], ops[1].arg[2]>>)

\* C6: from clone-create to the end of the mount sequence nothing is written to
\* the peer; then exactly one response is written: the "<vg> <name>" of the
\* volume the snapshot was taken from when every step succeeded, else the
\* stderr of the step that failed.
C6_OneResponsePerRequest ==
    [][ (pc \in Orchestrating) =>
          /\ NumResponses(out) + 1 = nreq
          /\ IF Reporting
             THEN /\ out' = Append(out, ExpectedResponse)
                  /\ ExpectedResponse.kind = "lv" =>
                        /\ \A c \in Raising : Succeeded(c)
                        /\ catalog[1].name = ops[1].arg[3]
                  /\ pc' \notin Orchestrating
             ELSE out' = out ]_vars

\* C6 witness: one connection has been sent a success line and an error text.
C6_Witness ==
    /\ pc = "top"
    /\ \E i, j \in 1..Len(out) : out[i].kind = "lv" /\ out[j].kind = "stderr"

\* C7: a line is read from the connection only while no request is in hand:
\* every Load yielded so far has had its commands run and its response written,
\* and at no time is more than one Load without its response.
C7_OneRequestAtATime ==
    [][ /\ nreq \in { NumResponses(out), NumResponses(out) + 1 }
        /\ (nread' > nread \/ (eof' /\ ~eof)) =>
              /\ pc \in {"top", "record"}
              /\ NumResponses(out) = nreq
              /\ ops = <<>>
              /\ err = NoErr
              /\ lv = NoLv ]_vars

\* C7 witness: the second record of a connection is being read, the first
\* request answered.
C7_Witness ==
    /\ pc = "record"
    /\ nreq = 1
    /\ NumResponses(out) = 1
    /\ nread >= 3

\* A request whose first group is among the addtags of an earlier request finds
\* the snapshot of that request in the catalog, holding the tags of the group,
\* and resolves to it when it is the most recent volume that holds them.
LaterRequestFindsSnapshot ==
    (Resolved /\ load.findtags # <<>>) =>
        LET G == Range(load.findtags[1])
            hits == Hits(LvsRead, { TagPrefix \o clean_tag(t) : t \in G })
        IN  \A k \in 1..Len(made) :
                G \subseteq made[k].addtags =>
                    \E p \in hits :
                        /\ LvsRead[p].name = made[k].name
                        /\ p = Min(hits) => lv = LvsRead[p]

\* C8 as stated: the snapshot is created with the tags tagPrefix + t, t in
\* addTags, and the snapshot tag; a later request whose first group is a subset
\* of those addTags resolves to it when it is the most recent match.
C8_SnapshotTaggedRaw ==
    /\ pc = "mount_bind" =>
          catalog[1] = Lv(lv.vg, snapshot_name,
                          { TagPrefix \o t : t \in Range(load.addtags) } \cup {TagSnapshot})
    /\ LaterRequestFindsSnapshot

\* C8 as amended: the snapshot is created with the tags tagPrefix +
\* clean_tag(t), t in addTags, and the snapshot tag; the catalog is read again
\* for every request, so a later request whose first group is a subset of those
\* addTags resolves to it when it is the most recent match.
C8_SnapshotTaggedAndFound ==
    /\ pc = "mount_bind" =>
          catalog[1] = Lv(lv.vg, snapshot_name,
                          { TagPrefix \o clean_tag(t) : t \in Range(load.addtags) }
                              \cup {TagSnapshot})
    /\ LaterRequestFindsSnapshot

\* C8 witness: a request resolved to the latest snapshot, whose addtags hold its
\* first group, although an older volume satisfies that group too.
C8_Witness ==
    /\ Resolved
    /\ made # <<>>
    /\ load.findtags # <<>>
    /\ Range(load.findtags[1]) \subseteq made[1].addtags
    /\ lv.name = made[1].name
    /\ \E p \in Hits(LvsRead, { TagPrefix \o clean_tag(t) : t \in Range(load.findtags[1]) }) :
          p > 1

\* C9: once a command of clone-create or of the mount sequence has failed, the
\* daemon stays with the request until its stderr is written to the peer, and
\* then goes back to reading the same connection, with nothing left of the
\* failure.
C9_FailureKeepsConnection ==
    [][ (pc \in Orchestrating /\ (err # NoErr \/ err' # NoErr)) =>
          /\ pc' \in Orchestrating \cup {"top"}
          /\ Reporting =>
                /\ pc' = "top"
                /\ out' = Append(out, Wrote("stderr", <<err>>))
                /\ err' = NoErr
                /\ ops' = <<>>
                /\ UNCHANGED << eof, nread, nreq, default >> ]_vars

\* C9 witness: on a connection that was sent an error text, a later request has
\* gone through clone-create and the whole mount sequence.
C9_Witness ==
    /\ Reporting
    /\ err = NoErr
    /\ Succeeded(CmdMove)
    /\ \E i \in 1..Len(out) : out[i].kind = "stderr"

\* C10: when the catalog read of a request fails (the handler leaves the
\* request without reaching clone-create), no command has been or is run for
\* it, the catalog is as it was, the request is dropped with the connection,
\* and the daemon is back at accept, from where it only takes the next
\* connection or an interrupt.
C10_LvsFailureDropsConnection ==
    [][ /\ (pc = "request" /\ pc' # "lvcreate") =>
              /\ pc' = "accept"
              /\ ops = <<>> /\ ops' = <<>>
              /\ load' = NoLoad
              /\ UNCHANGED << catalog, made, out, default >>
        /\ pc = "accept" =>
              /\ pc' \in {"accept", "top", "exit(0)"}
              /\ ops' = <<>>
              /\ UNCHANGED << catalog, made >> ]_vars

\* C10 witness: the daemon is back at accept having left a request unanswered
\* on a connection whose peer had not finished.
C10_Witness ==
    /\ pc = "accept"
    /\ nreq = NumResponses(out) + 1
    /\ nreq >= 2
    /\ ~eof

\* ------------------------------------------------------------------ C11

\* The position in a transcript of the last response to a request, 0 if none.
LastResponseAt(o) ==
    LET at == { i \in 1..Len(o) : o[i].kind \in {"lv", "stderr"} }
    IN  IF at = {} THEN 0 ELSE CHOOSE i \in at : \A j \in at : j <= i

\* The record being parsed or handled had the line echoed back as ignored.
EchoedInRecord(text) ==
    \E i \in (LastResponseAt(out) + 1)..Len(out) :
        out[i] = Wrote("ignoring unexpected", text)

\* A request is resolved whose record had bare ">" lines and no other find line.
OnlyBareFind ==
    /\ Resolved
    /\ EchoedInRecord(KwFind)
    /\ load.findtags = <<>>

\* C11 as stated: a request whose first find line is a bare ">" resolves to the
\* first, most recent volume of the catalog (here: the bare ">" lines are the
\* only find lines of the record).
C11_BareFindMatchesEveryVolume ==
    OnlyBareFind => lv = LvsRead[1]

\* C11: a bare ">" line of a record adds no tag-group: it is echoed back as
\* ignored, findtags never holds an empty group, and a request whose only find
\* lines are bare ">" lines resolves to the default volume.
C11_BareFindAddsNoGroup ==
    /\ \A i \in 1..Len(load.findtags) : load.findtags[i] # <<>>
    /\ (pc = "record" /\ lastline = KwFind) =>
          /\ out # <<>>
          /\ out[Len(out)] = Wrote("ignoring unexpected", KwFind)
    /\ OnlyBareFind => lv = default

\* C11 witness: a request with a bare ">" line is resolved to the default
\* volume while the catalog's first volume is another one.
C11_Witness ==
    /\ OnlyBareFind
    /\ lv = default
    /\ LvsRead[1] # default

\* ------------------------------------------------------------------ C12

\* The request being answered had clone-create and every mount step succeed.
FullSuccess == Reporting /\ err = NoErr

\* C12 as stated: on full success the identity written to the peer is the
\* (group, name) of the snapshot just created.
C12_ReportsClone ==
    [][ FullSuccess => out' = Append(out, Wrote("lv", <<lv.vg, snapshot_name>>)) ]_vars

\* C12: on full success the identity written to the peer is the (group, name)
\* of the volume the snapshot was taken from, which is not the snapshot: the
\* snapshot is the new first volume of the catalog, under another name.
C12_ReportsSource ==
    [][ FullSuccess =>
          /\ \A c \in Raising : Succeeded(c)
          /\ ops[1].arg = <<lv.vg, lv.name, snapshot_name>>
          /\ catalog[1].name = snapshot_name
          /\ lv.name # snapshot_name
          /\ \E i \in 2..Len(catalog) : catalog[i].name = lv.name
          /\ out' = Append(out, Wrote("lv", <<lv.vg, lv.name>>)) ]_vars

\* C12 witness: a request resolved by a tag-group, not to the default volume,
\* has been carried out in full and is about to be answered.
C12_Witness ==
    /\ FullSuccess
    /\ load.findtags # <<>>
    /\ lv # default

\* ------------------------------------------------------------------ C13

\* The best-effort unmounts of mount_into_namespace.
Umounts == { CmdUmountNsInner, CmdUmountNsStage, CmdUmountInner, CmdUmountStage }

\* The unmounts run for the request, in the order they were run.
UmountsRun ==
    LET at == SelectSeq([i \in 1..Len(ops) |-> i], LAMBDA i : ops[i].cmd \in Umounts)
    IN  [k \in 1..Len(at) |-> ops[at[k]].cmd]

\* The unmounts the outcome of the mounts calls for, whatever becomes of them.
UmountsDue ==
    IF Failed(CmdMove)
    THEN << CmdUmountNsInner, CmdUmountNsStage, CmdUmountInner, CmdUmountStage >>
    ELSE IF Succeeded(CmdMove)
    THEN << CmdUmountNsStage, CmdUmountInner, CmdUmountStage >>
    ELSE IF Failed(CmdMakePrivate)
    THEN << CmdUmountInner, CmdUmountStage >>
    ELSE IF Failed(CmdMountDev)
    THEN << CmdUmountStage >>
    ELSE << >>

\* C13: when an unmount of the unwinding has failed, the unmounts that were
\* due after it have been run all the same, the error that is propagating is
\* not an unmount's, and what the peer is sent is the stderr of the mount step
\* that failed, or the success line when none did.
C13_UnwindFailureNotEscalated ==
    [][ (Reporting /\ \E c \in Umounts : Failed(c)) =>
          /\ UmountsRun = UmountsDue
          /\ err \notin Umounts
          /\ out' = Append(out, ExpectedResponse)
          /\ ExpectedResponse.kind = "stderr" =>
                /\ ExpectedResponse.text[1] \in Raising
                /\ Failed(ExpectedResponse.text[1]) ]_vars

\* C13 witness: make-private failed, the unmount of the inner mount failed
\* too, and the staging directory was unmounted after it.
C13_Witness ==
    /\ Reporting
    /\ Failed(CmdMakePrivate)
    /\ Failed(CmdUmountInner)
    /\ Succeeded(CmdUmountStage)

\* ------------------------------------------------------------------ C14

\* This step reads a line, not the end of the stream, at the top level.
TopLineRead == pc = "top" /\ nread' = nread + 1

\* Once the daemon is back at accept, nothing more is read from the connection
\* it has left and no Load comes of it: the next read is a new connection's.
ConnectionOver ==
    pc = "accept" =>
        /\ nreq' \in {nreq, 0}
        /\ nread' \in {nread, 0}
        /\ pc' \in {"accept", "exit(0)"} \/ (pc' = "top" /\ nread' = 0 /\ out' = <<>>)

\* C14: a non-blank top-level line that starts with neither "mount" nor "bye"
\* is echoed back as unexpected and the session ends: the daemon returns to
\* accept without a Load, and reads nothing more of that connection.
C14_UnexpectedEndsSession ==
    [][ /\ ( /\ TopLineRead
             /\ lastline' # <<>>
             /\ ~StartsWith(lastline', KwMount)
             /\ ~StartsWith(lastline', KwBye) ) =>
              /\ out' = Append(out, Wrote("unexpected", lastline'))
              /\ pc' = "accept"
              /\ load' = NoLoad
              /\ nreq' = nreq
        /\ ConnectionOver ]_vars

\* C14 witness: after a request was answered, a line was echoed as unexpected
\* and the daemon is back at accept though the peer had more to send.
C14_Witness ==
    /\ pc = "accept"
    /\ nreq >= 1
    /\ out # <<>>
    /\ out[Len(out)].kind = "unexpected"
    /\ ~eof
    /\ nread < MaxLines

\* ------------------------------------------------------------------ C15

\* This step reads a line, not the end of the stream, inside a record.
RecordLineRead == pc = "record" /\ nread' = nread + 1

\* This step reads the blank line or the end of the stream that ends a record.
RecordEndRead == pc = "record" /\ lastline' = <<>> /\ (nread' = nread + 1 \/ eof')

\* C15: a non-blank line of a record that starts with neither "<" nor ">" is
\* echoed back as ignored and changes nothing else: the record goes on, ends at
\* the next blank line or end of stream, and its Load is yielded and resolved
\* with the tags the other lines gave it.
C15_StrayLineIgnored ==
    [][ /\ ( /\ RecordLineRead
             /\ lastline' # <<>>
             /\ lastline'[1] \notin {"<", ">"} ) =>
              /\ out' = Append(out, Wrote("ignoring unexpected", lastline'))
              /\ load' = load
              /\ pc' = "record"
              /\ nreq' = nreq
        /\ RecordEndRead =>
              /\ pc' = "request"
              /\ load' = load
              /\ nreq' = nreq + 1
              /\ out' = out
        /\ (pc = "request" /\ pc' = "lvcreate") => load' = load ]_vars

\* C15 witness: a record with a "bye" line between its "<" and ">" lines has
\* yielded a Load that carries the tags of both.
C15_Witness ==
    /\ pc = "request"
    /\ EchoedInRecord(KwBye)
    /\ load.addtags # <<>>
    /\ load.findtags # <<>>

\* ------------------------------------------------------------------ C16

\* The tokens that follow the first character of a line.
Tokens(line) == Split(Tail(line))

\* Every record starts from empty tag lists, is yielded as one Load when it
\* ends, and that Load is the only one not yet answered when main() has it.
OneLoadPerRecord ==
    /\ (TopLineRead /\ pc' = "record") =>
          /\ load'.addtags = <<>>
          /\ load'.findtags = <<>>
          /\ nreq' = nreq
    /\ RecordEndRead => (nreq' = nreq + 1 /\ load' = load)
    /\ pc = "request" => nreq = NumResponses(out) + 1

\* C16 as stated: each record yields one Load, in order; every "<" line adds
\* its tokens to the end of addtags, and every ">" line adds one entry to the
\* end of findtags.
C16_OneGroupPerFindLine ==
    [][ /\ OneLoadPerRecord
        /\ (RecordLineRead /\ lastline' # <<>>) =>
              IF lastline'[1] = "<"
              THEN load' = [load EXCEPT !.addtags = @ \o Tokens(lastline')]
              ELSE IF lastline'[1] = ">"
              THEN load' = [load EXCEPT !.findtags = Append(@, Tokens(lastline'))]
              ELSE load' = load ]_vars

\* C16: each record yields one Load, in order; every "<" line adds its tokens
\* to the end of addtags, duplicates kept, and every ">" line that has at
\* least one token adds one entry to the end of findtags; a bare ">" adds none.
C16_OneGroupPerTaggedFindLine ==
    [][ /\ OneLoadPerRecord
        /\ (RecordLineRead /\ lastline' # <<>>) =>
              IF lastline'[1] = "<"
              THEN load' = [load EXCEPT !.addtags = @ \o Tokens(lastline')]
              ELSE IF lastline'[1] = ">" /\ Tokens(lastline') # <<>>
              THEN load' = [load EXCEPT !.findtags = Append(@, Tokens(lastline'))]
              ELSE load' = load ]_vars

\* C16 witness: the second record of a connection, sent after the first was
\* answered, has yielded a Load with the two tokens of its "<" line.
C16_Witness ==
    /\ pc = "request"
    /\ nreq = 2
    /\ NumResponses(out) = 1
    /\ Len(load.addtags) = 2

\* Two "<" lines of one record gave the same tokens twice and both are kept.
C16_WitnessDuplicates ==
    /\ pc = "request"
    /\ Len(load.addtags) = 4
    /\ load.addtags[1] = load.addtags[3]

\* ------------------------------------------------------------------ C17

\* The commands run for the request, in the order they were run.
CmdsRun == [i \in 1..Len(ops) |-> ops[i].cmd]

\* The commands that act in the peer's mount namespace.
InPeerNamespace == { CmdMakePrivate, CmdMove, CmdUmountNsInner, CmdUmountNsStage }

\* C17: when the response is due, a failed bind mount has been followed by no
\* command at all; a failed mount of the device by the unmount of the staging
\* directory alone; a failed make-private by the unmount of the inner mount and
\* then of the staging directory, both in the daemon's own namespace, with no
\* command in the peer's namespace after the failure.
C17_EarlyFailureUnwinds ==
    Reporting =>
        /\ Failed(CmdBind) =>
              CmdsRun = << CmdLvcreate, CmdBind >>
        /\ Failed(CmdMountDev) =>
              CmdsRun = << CmdLvcreate, CmdBind, CmdMountDev, CmdUmountStage >>
        /\ Failed(CmdMakePrivate) =>
              /\ CmdsRun = << CmdLvcreate, CmdBind, CmdMountDev, CmdMakePrivate,
                              CmdUmountInner, CmdUmountStage >>
              /\ \A i \in 1..Len(CmdsAfter(CmdMakePrivate)) :
                    CmdsAfter(CmdMakePrivate)[i] \notin InPeerNamespace

\* C17 witness: make-private failed and both unmounts that followed succeeded.
C17_Witness ==
    /\ Reporting
    /\ Failed(CmdMakePrivate)
    /\ Succeeded(CmdUmountInner)
    /\ Succeeded(CmdUmountStage)

\* The bind mount failed, or the mount of the device did, and the response is due.
C17_WitnessBindOrDevice ==
    /\ Reporting
    /\ Failed(CmdBind) \/ Failed(CmdMountDev)

\* ------------------------------------------------------------------ C18

\* main() has a Load in hand, from its being yielded to its being answered.
Handling == pc = "request" \/ pc \in Orchestrating

\* C18 as stated: a top-level line opens a record only when it is the keyword
\* "mount", whitespace and a path, and no Load with an empty destination is
\* ever in main()'s hands.
C18_DestinationNeverEmpty ==
    [][ /\ (TopLineRead /\ pc' = "record") =>
              /\ StartsWith(lastline', KwMount)
              /\ Len(lastline') > Len(KwMount) + 1
              /\ IsSpace(lastline'[Len(KwMount) + 1])
              /\ load'.dst = Strip(SubSeq(lastline', Len(KwMount) + 1, Len(lastline')))
        /\ Handling => (load.dst # None /\ load.dst # <<>>) ]_vars

\* A snapshot has been created for a Load whose destination is empty.
C18_EmptyDestinationHandled ==
    /\ pc = "mount_bind"
    /\ load.dst = <<>>
    /\ Succeeded(CmdLvcreate)

\* ------------------------------------------------------------------ C19

\* The request being answered made a snapshot and failed to mount it.
MountFailure == Reporting /\ err \notin {NoErr, CmdLvcreate}

\* No step takes a volume out of the catalog: it stays, or gains a first entry.
NothingRemoved ==
    \/ catalog' = catalog
    \/ Len(catalog') = Len(catalog) + 1 /\ Tail(catalog') = catalog

\* C19: no step removes a volume and no command other than lvcreate, the
\* mounts and the unmounts is run; when the mount sequence has failed, the
\* snapshot made for the request is the catalog's first volume with its tags
\* and stays so through the response; and a later request whose first
\* tag-group that snapshot satisfies is resolved to it.
C19_FailedCloneStays ==
    [][ /\ NothingRemoved
        /\ \A i \in 1..Len(ops') : ops'[i].cmd \in Raising \cup Umounts
        /\ MountFailure =>
              /\ catalog[1] = lvcreate_snapshot(lv.vg, lv.name, snapshot_name,
                                                AddTags(load.addtags))
              /\ catalog[1].name = made[1].name
              /\ catalog' = catalog
              /\ mountfailed'
        /\ ( /\ Resolved
             /\ mountfailed
             /\ load.findtags # <<>>
             /\ Required(load.findtags[1]) \subseteq LvsRead[1].tags ) =>
              /\ lv = LvsRead[1]
              /\ lv.name = made[1].name ]_vars

\* C19 witness: a request is resolved to the snapshot that the request before
\* it created and failed to mount.
C19_Witness ==
    /\ Resolved
    /\ mountfailed
    /\ load.findtags # <<>>
    /\ lv = LvsRead[1]
    /\ lv.name = made[1].name

\* ------------------------------------------------------------------ C20

\* This step reads the end of the stream at the top level.
TopEofRead == pc = "top" /\ eof' /\ lastline' = <<>>

\* What the end of a session leaves: no Load, nothing more written, the daemon
\* back at accept.
SessionEndsQuietly ==
    /\ pc' = "accept"
    /\ out' = out
    /\ nreq' = nreq
    /\ load' = NoLoad
    /\ UNCHANGED << ops, catalog, made >>

\* C20: a blank line read at the top level does what the end of the stream
\* does there: the session ends with nothing written and no Load, and nothing
\* more is read from that connection.
C20_TopBlankEndsSession ==
    [][ /\ (TopLineRead /\ lastline' = <<>>) => SessionEndsQuietly
        /\ TopEofRead => SessionEndsQuietly
        /\ (pc = "accept" /\ lastline = <<>>) =>
              /\ nreq' \in {nreq, 0}
              /\ pc' = "top" => (nread' = 0 /\ out' = <<>> /\ ~eof') ]_vars

\* C20 witness: after a record was answered a blank line was read at the top
\* level, and the daemon is back at accept though the peer had more to send.
C20_Witness ==
    /\ pc = "accept"
    /\ lastline = <<>>
    /\ ~eof
    /\ nreq = 1
    /\ NumResponses(out) = 1
    /\ nread < MaxLines

====
